---- MODULE Spec2Model ----
(***************************************************************************)
(* State-machine model of the three managers of rns_flet_app:              *)
(*   LXSTManager (lxst.py)  - source, sink and pipeline registries         *)
(*   RNSManager  (rns.py)   - network initialization and identity          *)
(*   LXMFManager (lxmf.py)  - delivery destination and message creation    *)
(* RNS, LXMF and LXST are external libraries: what their calls return or   *)
(* raise is a nondeterministic input of the action that makes the call.    *)
(***************************************************************************)
EXTENDS Integers, Sequences, FiniteSets, TLC

None == "None"

(***************************************************************************)
(* Bounds of the model.                                                    *)
(***************************************************************************)
\* pipeline objects constructed during one run
MaxObjects == 2
\* memory addresses a pipeline object can be allocated at
NumAddrs == 2
\* memory addresses a source or sink object can be allocated at
NumEndAddrs == 2
\* pipelines constructed from registered sources and sinks during one run
MaxEndPipelines == 1

\* identities RNS.Identity() generates during one run
MaxIdentities == 2
\* RNS.Reticulum instances the model lets a process construct
MaxInstances == 2

\* LXMF.LXMRouter instances constructed during one run
MaxRouters == 2
\* longest destination hash passed to create_message, in bytes
MaxHashLen == 17
\* distinct peer addresses
NumPeers == 2
\* messages the router's outbound queue takes during one run
MaxOutbound == 1
\* messages the router delivers to message_callback during one run
MaxInbound == 1

Objects == 1 .. MaxObjects
Routers == 1 .. MaxRouters
Peers == 1 .. NumPeers
Addrs == 1 .. NumAddrs
EndAddrs == 1 .. NumEndAddrs
Identities == 1 .. MaxIdentities

VARIABLES
    sources,     \* LXSTManager.sources: source_id -> source object
    sinks,       \* LXSTManager.sinks: sink_id -> sink object
    pipelines,   \* LXSTManager.pipelines: pipeline_id -> pipeline object
    objEnds,     \* the source and sink each pipeline object was constructed with
    objAddr,     \* id(pipeline) of every object constructed so far (0: not yet)
    objState,    \* lifecycle state held by the LXST.Pipeline object itself
    held,        \* pipeline objects the caller still references
    nObjects,    \* number of LXST.Pipeline objects constructed so far
    lxstIdentity,     \* LXSTManager.identity
    lxstDestination,  \* LXSTManager.destination: "None" or "bare"
    lxstCall     \* the last LXSTManager call: operation, arguments, result

lxstVars == <<sources, sinks, pipelines, objEnds, objAddr, objState, held, nObjects,
              lxstIdentity, lxstDestination, lxstCall>>

\* The two fields initialize sets.
lxstSelf == <<lxstIdentity, lxstDestination>>

\* The two registries create_audio_source and create_audio_sink fill, and what
\* each pipeline was built from.
lxstEnds == <<sources, sinks, objEnds>>

VARIABLES
    initialized,   \* RNSManager.initialized
    rnsIdentity,   \* RNSManager.identity: None or an identity
    instances,     \* RNS.Reticulum instances constructed by this process
    identityFile,  \* <config dir>/storage/identity: "absent", "corrupt" or an identity
    nIdentities,   \* identities generated so far, over all runs
    rnsCall        \* the last RNSManager call: operation, result, what it did

rnsVars == <<initialized, rnsIdentity, instances, identityFile, nIdentities, rnsCall>>

VARIABLES
    router,        \* LXMFManager.router: 0 (None) or a router
    destination,   \* LXMFManager.destination: NoDestination or a destination handle
    lxmfIdentity,  \* LXMFManager.identity
    storagePath,   \* LXMFManager.storage_path
    nRouters,      \* LXMF.LXMRouter instances constructed so far
    nDests,        \* destination objects handed to the manager so far
    pathRequests,  \* peers RNS.Transport.request_path was called for
    outbound,      \* messages handed to router.handle_outbound, oldest first
    lxmfCall       \* the last LXMFManager call: operation, arguments, result

lxmfVars == <<router, destination, lxmfIdentity, storagePath, nRouters, nDests,
              pathRequests, outbound, lxmfCall>>

VARIABLES
    pc,             \* where main() is
    mainIdentity,   \* main's local variable identity
    mainLog,        \* the initialization calls main has made, with their results
    page_ref,       \* app.page_ref: FALSE (None) until main stores the page
    callbackRegistered,  \* message_callback is registered with the router
    messages_list,  \* app.messages_list
    cb,             \* the network thread inside message_callback
    ui,             \* the UI thread inside send_message
    runQueue,       \* how many tasks handed to page.run_thread have not run yet
    rendered,       \* the number of message cards build_ui last put on the page
    uiBuilt,        \* build_ui has run: send_fields hold the input controls
    writers         \* the threads that have inserted into messages_list

appVars == <<pc, mainIdentity, mainLog, page_ref, callbackRegistered, messages_list,
             cb, ui, runQueue, rendered, uiBuilt, writers>>

vars == <<lxstVars, rnsVars, lxmfVars, appVars>>

\* What the actions of one manager leave alone.
notLxstVars == <<rnsVars, lxmfVars>>
notRnsVars == <<lxstVars, lxmfVars>>
notLxmfVars == <<lxstVars, rnsVars>>

(***************************************************************************)
(* LXSTManager                                                             *)
(***************************************************************************)

\* f"pipeline_{id(pipeline)}": the key is the text "pipeline_" followed by the
\* decimal address, one key per address.
PipelineId(addr) == <<"pipeline", addr>>

PipelineIds == {PipelineId(a) : a \in Addrs}

\* f"source_{id(source)}" and f"sink_{id(sink)}"
SourceId(addr) == <<"source", addr>>
SinkId(addr) == <<"sink", addr>>

\* A source or sink is the object at an address; NoEnd is an object that is in
\* neither registry (one the caller constructed itself).
NoEnd == 0

\* The source and sink objects the registries hold.
RegisteredSources == {sources[k] : k \in DOMAIN sources}
RegisteredSinks == {sinks[k] : k \in DOMAIN sinks}

\* Every source and sink the manager created is referenced by its registry, so
\* it stays allocated. Sources and sinks are given addresses of their own: the
\* addresses pipelines are allocated at are the ones left over.
FreeEndAddrs == EndAddrs \ (RegisteredSources \cup RegisteredSinks)

\* The source_type and sink_type values the two if/elif chains know.
SourceTypes == {"local", "remote", "file"}
SinkTypes == {"local", "remote", "null"}

Registered(o) == \E k \in DOMAIN pipelines : pipelines[k] = o

\* The objects close_pipeline has removed: every constructed object is registered
\* by create_pipeline, and only close_pipeline deletes an entry.
Closed(o) == o \in 1 .. nObjects /\ ~Registered(o)

\* An object stays allocated while the registry or the caller references it.
Live(o) == o \in held \/ Registered(o)

\* id() is the object's address: only the addresses of live objects are taken.
FreeAddrs == {a \in Addrs : \A o \in 1 .. nObjects : Live(o) => objAddr[o] # a}

\* getattr(pipeline, 'active', False): the manager's only view of whether a
\* pipeline is running is its active attribute, which the Pipeline object sets
\* in start() and clears in stop().
PipelineActive(o) == objState[o] = "running"

\* pipeline.start(): created|stopped -> running
PipelineStart(st) == "running"

\* pipeline.stop(): running -> stopped, nothing to do otherwise
PipelineStop(st) == IF st = "running" THEN "stopped" ELSE st

NoStats == [latency |-> 0, bitrate |-> 0, active |-> FALSE]

\* A call as the caller sees it, with what the manager did on the way: was is the
\* object's lifecycle state when the call was made, stopInvoked whether the call
\* invoked pipeline.stop(), kind the source_type or sink_type argument.
LxstCall(op, o, pid, ret, stats, stopInvoked) ==
    [op |-> op, obj |-> o, pid |-> pid, ret |-> ret, stats |-> stats,
     was |-> IF o = 0 THEN "none" ELSE objState[o], stopInvoked |-> stopInvoked,
     kind |-> None]

LxstInit ==
    /\ sources = <<>>
    /\ sinks = <<>>
    /\ objEnds = [o \in Objects |-> <<NoEnd, NoEnd>>]
    /\ pipelines = <<>>
    /\ objAddr = [o \in Objects |-> 0]
    /\ objState = [o \in Objects |-> "none"]
    /\ held = {}
    /\ nObjects = 0
    /\ lxstIdentity = 0
    /\ lxstDestination = None
    /\ lxstCall = [op |-> "init", obj |-> 0, pid |-> None, ret |-> None,
                   stats |-> NoStats, was |-> "none", stopInvoked |-> FALSE,
                   kind |-> None]

\* create_audio_source(source_type): addr is where the source object is
\* allocated, fault says whether its constructor raises.
create_audio_source(source_type, addr, fault) ==
    /\ UNCHANGED notLxstVars
    /\ IF source_type \in SourceTypes /\ ~fault
       THEN /\ addr \in FreeEndAddrs
            /\ sources' = [k \in DOMAIN sources \cup {SourceId(addr)} |->
                              IF k = SourceId(addr) THEN addr ELSE sources[k]]
            /\ lxstCall' = [LxstCall("create_audio_source", 0, SourceId(addr), "Source",
                                     NoStats, FALSE)
                                EXCEPT !.kind = source_type]
       ELSE \* an unknown type, or the constructor raised
            /\ lxstCall' = [LxstCall("create_audio_source", 0, None, None, NoStats, FALSE)
                                EXCEPT !.kind = source_type]
            /\ UNCHANGED sources
    /\ UNCHANGED <<sinks, objEnds, pipelines, objAddr, objState, held, nObjects, lxstSelf>>

\* create_audio_sink(sink_type): addr is where the sink object is allocated,
\* fault says whether its constructor raises.
create_audio_sink(sink_type, addr, fault) ==
    /\ UNCHANGED notLxstVars
    /\ IF sink_type \in SinkTypes /\ ~fault
       THEN /\ addr \in FreeEndAddrs
            /\ sinks' = [k \in DOMAIN sinks \cup {SinkId(addr)} |->
                            IF k = SinkId(addr) THEN addr ELSE sinks[k]]
            /\ lxstCall' = [LxstCall("create_audio_sink", 0, SinkId(addr), "Sink",
                                     NoStats, FALSE)
                                EXCEPT !.kind = sink_type]
       ELSE /\ lxstCall' = [LxstCall("create_audio_sink", 0, None, None, NoStats, FALSE)
                                EXCEPT !.kind = sink_type]
            /\ UNCHANGED sinks
    /\ UNCHANGED <<sources, objEnds, pipelines, objAddr, objState, held, nObjects, lxstSelf>>

\* create_pipeline(source, sink): addr is where LXST.Pipeline(...) is allocated,
\* fault says whether the constructor raises.
create_pipeline(source, sink, addr, fault) ==
    /\ UNCHANGED notLxstVars
    /\ nObjects < MaxObjects
    /\ fault \/ addr \in FreeAddrs
    /\ IF fault
       THEN /\ lxstCall' = LxstCall("create_pipeline", 0, None, None, NoStats, FALSE)
            /\ UNCHANGED <<pipelines, objAddr, objState, held, nObjects, lxstSelf, lxstEnds>>
       ELSE LET o == nObjects + 1
                pid == PipelineId(addr)
            IN /\ nObjects' = o
               /\ objAddr' = [objAddr EXCEPT ![o] = addr]
               /\ objState' = [objState EXCEPT ![o] = "created"]
               /\ pipelines' = [k \in DOMAIN pipelines \cup {pid} |->
                                   IF k = pid THEN o ELSE pipelines[k]]
               /\ held' = held \cup {o}
               /\ objEnds' = [objEnds EXCEPT ![o] = <<source, sink>>]
               /\ UNCHANGED <<lxstSelf, sources, sinks>>
               /\ lxstCall' = [LxstCall("create_pipeline", 0, pid, "Pipeline", NoStats, FALSE)
                                   EXCEPT !.obj = o]

\* start_pipeline(pipeline): the argument is the object, the registry is not read.
start_pipeline(o, fault) ==
    /\ o \in held
    /\ IF fault
       THEN /\ lxstCall' = LxstCall("start_pipeline", o, None, "False", NoStats, FALSE)
            /\ UNCHANGED objState
       ELSE /\ objState' = [objState EXCEPT ![o] = PipelineStart(objState[o])]
            /\ lxstCall' = LxstCall("start_pipeline", o, None, "True", NoStats, FALSE)
    /\ UNCHANGED <<pipelines, objAddr, held, nObjects, lxstSelf, lxstEnds>>
    /\ UNCHANGED notLxstVars

\* stop_pipeline as it would be if stopping a pipeline that is not running were
\* reported as a failure.
stop_pipeline_Strict(o, fault) ==
    /\ o \in held
    /\ IF fault \/ ~PipelineActive(o)
       THEN /\ lxstCall' = LxstCall("stop_pipeline", o, None, "False", NoStats, TRUE)
            /\ UNCHANGED objState
       ELSE /\ objState' = [objState EXCEPT ![o] = PipelineStop(objState[o])]
            /\ lxstCall' = LxstCall("stop_pipeline", o, None, "True", NoStats, TRUE)
    /\ UNCHANGED <<pipelines, objAddr, held, nObjects, lxstSelf, lxstEnds>>
    /\ UNCHANGED notLxstVars

\* stop_pipeline(pipeline): stopping a running pipeline can raise, stopping one
\* that is not running does nothing.
stop_pipeline(o, fault) ==
    /\ o \in held
    /\ IF fault /\ PipelineActive(o)
       THEN /\ lxstCall' = LxstCall("stop_pipeline", o, None, "False", NoStats, TRUE)
            /\ UNCHANGED objState
       ELSE /\ objState' = [objState EXCEPT ![o] = PipelineStop(objState[o])]
            /\ lxstCall' = LxstCall("stop_pipeline", o, None, "True", NoStats, TRUE)
    /\ UNCHANGED <<pipelines, objAddr, held, nObjects, lxstSelf, lxstEnds>>
    /\ UNCHANGED notLxstVars

\* get_pipeline_stats(pipeline): three getattr reads of the object.
get_pipeline_stats(o) ==
    /\ o \in held
    /\ lxstCall' = LxstCall("get_pipeline_stats", o, None, "Stats",
                            [latency |-> 0, bitrate |-> 0, active |-> PipelineActive(o)],
                            FALSE)
    /\ UNCHANGED <<pipelines, objAddr, objState, held, nObjects, lxstSelf, lxstEnds>>
    /\ UNCHANGED notLxstVars

\* list_active_pipelines()
list_active_pipelines == {k \in DOMAIN pipelines : PipelineActive(pipelines[k])}

\* close_pipeline as it would be without the stop of an active pipeline.
close_pipeline_NoStop(pid, fault) ==
    /\ UNCHANGED notLxstVars
    /\ IF pid \in DOMAIN pipelines
       THEN LET o == pipelines[pid]
            IN /\ objState' = [objState EXCEPT ![o] = IF o \notin held THEN "freed" ELSE @]
               /\ pipelines' = [k \in DOMAIN pipelines \ {pid} |-> pipelines[k]]
               /\ lxstCall' = LxstCall("close_pipeline", o, pid, "True", NoStats, FALSE)
               /\ UNCHANGED <<objAddr, held, nObjects, lxstSelf, lxstEnds>>
       ELSE /\ lxstCall' = LxstCall("close_pipeline", 0, pid, "False", NoStats, FALSE)
            /\ UNCHANGED <<pipelines, objAddr, objState, held, nObjects, lxstSelf, lxstEnds>>

\* close_pipeline as it would be if closing a pipeline also dropped the source
\* and the sink it was built from out of the registries.
close_pipeline_DropEnds(pid, fault) ==
    /\ UNCHANGED notLxstVars
    /\ IF pid \in DOMAIN pipelines
       THEN LET o == pipelines[pid]
            IN IF PipelineActive(o) /\ fault
               THEN /\ lxstCall' = LxstCall("close_pipeline", o, pid, "False", NoStats, TRUE)
                    /\ UNCHANGED <<pipelines, objAddr, objState, held, nObjects, lxstSelf,
                                   lxstEnds>>
               ELSE /\ objState' = [objState EXCEPT ![o] =
                                       IF o \notin held THEN "freed"
                                       ELSE IF PipelineActive(o) THEN PipelineStop(@) ELSE @]
                    /\ pipelines' = [k \in DOMAIN pipelines \ {pid} |-> pipelines[k]]
                    /\ sources' = [k \in DOMAIN sources \ {SourceId(objEnds[o][1])} |->
                                      sources[k]]
                    /\ sinks' = [k \in DOMAIN sinks \ {SinkId(objEnds[o][2])} |-> sinks[k]]
                    /\ lxstCall' = LxstCall("close_pipeline", o, pid, "True", NoStats,
                                            PipelineActive(o))
                    /\ UNCHANGED <<objEnds, objAddr, held, nObjects, lxstSelf>>
       ELSE /\ lxstCall' = LxstCall("close_pipeline", 0, pid, "False", NoStats, FALSE)
            /\ UNCHANGED <<pipelines, objAddr, objState, held, nObjects, lxstSelf, lxstEnds>>

\* close_pipeline(pipeline_id)
close_pipeline(pid, fault) ==
    /\ UNCHANGED notLxstVars
    /\ IF pid \in DOMAIN pipelines
       THEN LET o == pipelines[pid]
            IN IF PipelineActive(o) /\ fault
               THEN \* pipeline.stop() raises: the entry stays
                    /\ lxstCall' = LxstCall("close_pipeline", o, pid, "False", NoStats, TRUE)
                    /\ UNCHANGED <<pipelines, objAddr, objState, held, nObjects, lxstSelf, lxstEnds>>
               ELSE /\ objState' = [objState EXCEPT ![o] =
                                       IF o \notin held THEN "freed"
                                       ELSE IF PipelineActive(o) THEN PipelineStop(@) ELSE @]
                    /\ pipelines' = [k \in DOMAIN pipelines \ {pid} |-> pipelines[k]]
                    /\ lxstCall' = LxstCall("close_pipeline", o, pid, "True", NoStats,
                                            PipelineActive(o))
                    /\ UNCHANGED <<objAddr, held, nObjects, lxstSelf, lxstEnds>>
       ELSE /\ lxstCall' = LxstCall("close_pipeline", 0, pid, "False", NoStats, FALSE)
            /\ UNCHANGED <<pipelines, objAddr, objState, held, nObjects, lxstSelf, lxstEnds>>

\* The caller drops its reference to a pipeline object; once the registry does
\* not reference it either, the object is freed and its address can be reused.
Release(o) ==
    /\ o \in held
    /\ held' = held \ {o}
    /\ objState' = [objState EXCEPT ![o] = IF Registered(o) THEN @ ELSE "freed"]
    /\ lxstCall' = LxstCall("release", o, None, None, NoStats, FALSE)
    /\ UNCHANGED <<pipelines, objAddr, nObjects, lxstSelf, lxstEnds>>
    /\ UNCHANGED notLxstVars

\* LXSTManager.initialize(identity, destination_name): fault says whether
\* RNS.Destination(...) raises; the identity is stored before it is called.
LXSTManager_initialize(identity, fault) ==
    /\ lxstIdentity' = identity
    /\ lxstDestination' = IF fault THEN lxstDestination ELSE "bare"
    /\ lxstCall' = LxstCall("initialize", 0, None, IF fault THEN "False" ELSE "True",
                            NoStats, FALSE)
    /\ UNCHANGED <<pipelines, objAddr, objState, held, nObjects, lxstEnds>>
    /\ UNCHANGED notLxstVars

LxstNext ==
    \/ \E a \in Addrs, f \in BOOLEAN :
           create_pipeline(NoEnd, NoEnd, a, f) /\ UNCHANGED appVars
    \/ \E o \in Objects, f \in BOOLEAN : start_pipeline(o, f) /\ UNCHANGED appVars
    \/ \E o \in Objects, f \in BOOLEAN : stop_pipeline(o, f) /\ UNCHANGED appVars
    \/ \E o \in Objects : get_pipeline_stats(o) /\ UNCHANGED appVars
    \/ \E k \in PipelineIds, f \in BOOLEAN : close_pipeline(k, f) /\ UNCHANGED appVars
    \/ \E o \in Objects : Release(o) /\ UNCHANGED appVars

\* The allocator hands out the lowest address that is free, any address when
\* none is (a constructor that raises or is never called takes none).
NextAddr(all, free) ==
    LET from == IF free = {} THEN all ELSE free
    IN {a \in from : \A b \in from : a <= b}

\* The operations on the registries of sources and sinks, with pipelines that
\* are built from a registered source and a registered sink and that the caller
\* keeps its references to.
LxstEndsNext ==
    \/ \E t \in SourceTypes \cup {"other"}, a \in NextAddr(EndAddrs, FreeEndAddrs),
          f \in BOOLEAN :
           create_audio_source(t, a, f) /\ UNCHANGED appVars
    \/ \E t \in SinkTypes \cup {"other"}, a \in NextAddr(EndAddrs, FreeEndAddrs),
          f \in BOOLEAN :
           create_audio_sink(t, a, f) /\ UNCHANGED appVars
    \/ \E src \in RegisteredSources, snk \in RegisteredSinks,
          a \in NextAddr(Addrs, FreeAddrs), f \in BOOLEAN :
           nObjects < MaxEndPipelines /\ create_pipeline(src, snk, a, f)
               /\ UNCHANGED appVars
    \/ \E o \in Objects, f \in BOOLEAN : start_pipeline(o, f) /\ UNCHANGED appVars
    \/ \E o \in Objects, f \in BOOLEAN : stop_pipeline(o, f) /\ UNCHANGED appVars
    \/ \E o \in Objects : get_pipeline_stats(o) /\ UNCHANGED appVars
    \/ \E k \in PipelineIds, f \in BOOLEAN : close_pipeline(k, f) /\ UNCHANGED appVars

(***************************************************************************)
(* RNSManager                                                              *)
(***************************************************************************)

\* self.identity = None
NoIdentity == 0

\* The identity file on disk: absent, unreadable as an identity, or the
\* serialized keys of identity id.
NoFile == [kind |-> "absent", id |-> NoIdentity]
CorruptFile == [kind |-> "corrupt", id |-> NoIdentity]
SavedFile(i) == [kind |-> "identity", id |-> i]

\* identity.hash: derived from the identity's public key, one hash per identity.
IdentityHash(i) == <<"hash", i>>

\* What the RNS.Reticulum() constructor can do: succeed, raise one of the two
\* exception types initialize catches, or raise any other exception.
ReticulumOutcomes == {"ok", "OSError", "ValueError", "other"}

\* The call did not look at the identity file.
FileNotRead == [kind |-> "unread", id |-> NoIdentity]

\* A call as the caller sees it (ret, and the identity or hash returned), with
\* what the manager did on the way: attempted says whether RNS.Reticulum() was
\* called, generated whether RNS.Identity() generated a new identity, fileWas
\* what create_identity found on disk, readFault whether reading it raised.
RnsCall(op, ret, id, attempted, generated) ==
    [op |-> op, ret |-> ret, identity |-> id, wasInitialized |-> initialized,
     attempted |-> attempted, generated |-> generated,
     connected |-> FALSE, interfaces |-> 0, peers |-> 0,
     fileWas |-> FileNotRead, readFault |-> FALSE]

RnsFresh ==
    [op |-> "init", ret |-> None, identity |-> NoIdentity, wasInitialized |-> FALSE,
     attempted |-> FALSE, generated |-> FALSE,
     connected |-> FALSE, interfaces |-> 0, peers |-> 0,
     fileWas |-> FileNotRead, readFault |-> FALSE]

RnsInit ==
    /\ initialized = FALSE
    /\ rnsIdentity = NoIdentity
    /\ instances = 0
    /\ identityFile = NoFile
    /\ nIdentities = 0
    /\ rnsCall = RnsFresh

\* initialize as it would be without the "if not self.initialized" guard.
RNSManager_initialize_NoGuard(outcome) ==
    /\ instances < MaxInstances
    /\ IF outcome = "ok"
       THEN /\ instances' = instances + 1
            /\ initialized' = TRUE
            /\ rnsCall' = RnsCall("initialize", "True", NoIdentity, TRUE, FALSE)
       ELSE /\ rnsCall' = RnsCall("initialize",
                                  IF outcome \in {"OSError", "ValueError"}
                                  THEN "False" ELSE "raised", NoIdentity, TRUE, FALSE)
            /\ UNCHANGED <<initialized, instances>>
    /\ UNCHANGED <<rnsIdentity, identityFile, nIdentities>>
    /\ UNCHANGED notRnsVars

\* RNSManager.initialize(): outcome is what RNS.Reticulum() does if it is called.
RNSManager_initialize(outcome) ==
    /\ instances < MaxInstances
    /\ IF ~initialized
       THEN IF outcome = "ok"
            THEN /\ instances' = instances + 1
                 /\ initialized' = TRUE
                 /\ rnsCall' = RnsCall("initialize", "True", NoIdentity, TRUE, FALSE)
            ELSE \* OSError and ValueError are caught, anything else propagates
                 /\ rnsCall' = RnsCall("initialize",
                                       IF outcome \in {"OSError", "ValueError"}
                                       THEN "False" ELSE "raised",
                                       NoIdentity, TRUE, FALSE)
                 /\ UNCHANGED <<initialized, instances>>
       ELSE /\ rnsCall' = RnsCall("initialize", "True", NoIdentity, FALSE, FALSE)
            /\ UNCHANGED <<initialized, instances>>
    /\ UNCHANGED <<rnsIdentity, identityFile, nIdentities>>
    /\ UNCHANGED notRnsVars

\* create_identity as it would be without the os.path.exists test: every call
\* generates an identity and writes it.
create_identity_NoLoad(loadOutcome, ioFault, saveOutcome) ==
    /\ nIdentities < MaxIdentities
    /\ nIdentities' = nIdentities + 1
    /\ rnsIdentity' = nIdentities + 1
    /\ IF saveOutcome = "ok"
       THEN /\ identityFile' = SavedFile(nIdentities + 1)
            /\ rnsCall' = [RnsCall("create_identity", "Identity", nIdentities + 1,
                                   FALSE, TRUE)
                               EXCEPT !.fileWas = identityFile]
       ELSE /\ rnsCall' = [RnsCall("create_identity", None, NoIdentity, FALSE, TRUE)
                               EXCEPT !.fileWas = identityFile]
            /\ UNCHANGED identityFile
    /\ UNCHANGED <<initialized, instances>>
    /\ UNCHANGED notRnsVars

\* create_identity as it would be if a file that cannot be read as an identity
\* were replaced by a newly generated identity.
create_identity_Regenerate(loadOutcome, ioFault, saveOutcome) ==
    /\ IF identityFile.kind = "identity" /\ ~ioFault
       THEN /\ rnsIdentity' = identityFile.id
            /\ rnsCall' = [RnsCall("create_identity", "Identity", identityFile.id,
                                   FALSE, FALSE)
                               EXCEPT !.fileWas = identityFile]
            /\ UNCHANGED <<identityFile, nIdentities>>
       ELSE /\ nIdentities < MaxIdentities
            /\ nIdentities' = nIdentities + 1
            /\ rnsIdentity' = nIdentities + 1
            /\ identityFile' = SavedFile(nIdentities + 1)
            /\ rnsCall' = [RnsCall("create_identity", "Identity", nIdentities + 1,
                                   FALSE, TRUE)
                               EXCEPT !.fileWas = identityFile, !.readFault = ioFault]
    /\ UNCHANGED <<initialized, instances>>
    /\ UNCHANGED notRnsVars

\* create_identity as it would be if a call that fails to persist the identity
\* it generated put the manager's identity back to what it was before the call.
create_identity_Restore(loadOutcome, ioFault, saveOutcome) ==
    /\ IF identityFile.kind # "absent"
       THEN IF ioFault \/ (identityFile.kind = "corrupt" /\ loadOutcome = "raise")
            THEN /\ rnsCall' = [RnsCall("create_identity", None, NoIdentity, FALSE, FALSE)
                                    EXCEPT !.fileWas = identityFile,
                                           !.readFault = ioFault]
                 /\ UNCHANGED <<rnsIdentity, identityFile, nIdentities>>
            ELSE /\ rnsIdentity' = identityFile.id
                 /\ rnsCall' = [RnsCall("create_identity",
                                        IF identityFile.id = NoIdentity
                                        THEN None ELSE "Identity",
                                        identityFile.id, FALSE, FALSE)
                                    EXCEPT !.fileWas = identityFile]
                 /\ UNCHANGED <<identityFile, nIdentities>>
       ELSE /\ nIdentities < MaxIdentities
            /\ LET new == nIdentities + 1
               IN /\ nIdentities' = new
                  /\ IF saveOutcome = "ok"
                     THEN /\ rnsIdentity' = new
                          /\ identityFile' = SavedFile(new)
                          /\ rnsCall' = [RnsCall("create_identity", "Identity", new,
                                                 FALSE, TRUE)
                                             EXCEPT !.fileWas = identityFile]
                     ELSE /\ rnsCall' = [RnsCall("create_identity", None, NoIdentity,
                                                 FALSE, TRUE)
                                             EXCEPT !.fileWas = identityFile]
                          /\ UNCHANGED <<rnsIdentity, identityFile>>
    /\ UNCHANGED <<initialized, instances>>
    /\ UNCHANGED notRnsVars

\* RNSManager.create_identity(). loadOutcome is what RNS.Identity.from_file does
\* on a file it cannot use ("none": returns None, "raise": raises); an I/O fault
\* makes it raise on any file. saveOutcome is what makedirs and to_file do:
\* "ok", "mkdir" (makedirs raises), "write" (to_file raises, nothing written).
create_identity(loadOutcome, ioFault, saveOutcome) ==
    /\ IF identityFile.kind # "absent"
       THEN IF ioFault \/ (identityFile.kind = "corrupt" /\ loadOutcome = "raise")
            THEN /\ rnsCall' = [RnsCall("create_identity", None, NoIdentity, FALSE, FALSE)
                                    EXCEPT !.fileWas = identityFile,
                                           !.readFault = ioFault]
                 /\ UNCHANGED <<rnsIdentity, identityFile, nIdentities>>
            ELSE \* from_file's result is stored and returned, None included
                 /\ rnsIdentity' = identityFile.id
                 /\ rnsCall' = [RnsCall("create_identity",
                                        IF identityFile.id = NoIdentity
                                        THEN None ELSE "Identity",
                                        identityFile.id, FALSE, FALSE)
                                    EXCEPT !.fileWas = identityFile]
                 /\ UNCHANGED <<identityFile, nIdentities>>
       ELSE /\ nIdentities < MaxIdentities
            /\ LET new == nIdentities + 1
               IN /\ nIdentities' = new
                  /\ rnsIdentity' = new
                  /\ IF saveOutcome = "ok"
                     THEN /\ identityFile' = SavedFile(new)
                          /\ rnsCall' = [RnsCall("create_identity", "Identity", new,
                                                 FALSE, TRUE)
                                             EXCEPT !.fileWas = identityFile]
                     ELSE /\ rnsCall' = [RnsCall("create_identity", None, NoIdentity,
                                                 FALSE, TRUE)
                                             EXCEPT !.fileWas = identityFile]
                          /\ UNCHANGED identityFile
    /\ UNCHANGED <<initialized, instances>>
    /\ UNCHANGED notRnsVars

\* RNSManager.get_identity_hash()
get_identity_hash ==
    /\ rnsCall' = RnsCall("get_identity_hash",
                          IF rnsIdentity # NoIdentity THEN "Hash" ELSE None,
                          rnsIdentity, FALSE, FALSE)
    /\ UNCHANGED <<initialized, rnsIdentity, instances, identityFile, nIdentities>>
    /\ UNCHANGED notRnsVars

\* RNSManager.load_identity(identity_data): data is the identity the bytes
\* encode, NoIdentity for bytes RNS.Identity.from_bytes cannot use; on those it
\* returns None (badOutcome "none") or raises ("raise").
load_identity(data, badOutcome) ==
    /\ IF data = NoIdentity /\ badOutcome = "raise"
       THEN /\ rnsCall' = RnsCall("load_identity", None, NoIdentity, FALSE, FALSE)
            /\ UNCHANGED rnsIdentity
       ELSE /\ rnsIdentity' = data
            /\ rnsCall' = RnsCall("load_identity",
                                  IF data = NoIdentity THEN None ELSE "Identity",
                                  data, FALSE, FALSE)
    /\ UNCHANGED <<initialized, instances, identityFile, nIdentities>>
    /\ UNCHANGED notRnsVars

\* RNSManager.save_identity(): fault says whether identity.to_bytes() raises.
save_identity(fault) ==
    /\ rnsCall' = IF rnsIdentity # NoIdentity /\ ~fault
                  THEN RnsCall("save_identity", "Bytes", rnsIdentity, FALSE, FALSE)
                  ELSE RnsCall("save_identity", None, NoIdentity, FALSE, FALSE)
    /\ UNCHANGED <<initialized, rnsIdentity, instances, identityFile, nIdentities>>
    /\ UNCHANGED notRnsVars

\* RNSManager.get_status(): link is what RNS.Reticulum.is_connected() does
\* ("up", "down" or "raise"), nInterfaces and nPeers the lengths of the lists
\* get_interfaces() and get_peers() return. Nothing is caught here.
get_status(link, nInterfaces, nPeers) ==
    /\ rnsCall' =
          IF initialized /\ link = "raise"
          THEN RnsCall("get_status", "raised", NoIdentity, FALSE, FALSE)
          ELSE IF initialized /\ link = "up"
          THEN [RnsCall("get_status", "Status", rnsIdentity, FALSE, FALSE)
                   EXCEPT !.connected = TRUE, !.interfaces = nInterfaces,
                          !.peers = nPeers]
          ELSE RnsCall("get_status", "Status", NoIdentity, FALSE, FALSE)
    /\ UNCHANGED <<initialized, rnsIdentity, instances, identityFile, nIdentities>>
    /\ UNCHANGED notRnsVars

\* The identity file is damaged or replaced by something that is no identity.
DamageIdentityFile ==
    /\ identityFile' = CorruptFile
    /\ UNCHANGED <<initialized, rnsIdentity, instances, nIdentities, rnsCall>>
    /\ UNCHANGED notRnsVars

\* The process ends and a new one starts: the module-level rns_manager is
\* constructed again, the identity file stays on disk.
RnsRestart ==
    /\ initialized' = FALSE
    /\ rnsIdentity' = NoIdentity
    /\ instances' = 0
    /\ rnsCall' = RnsFresh
    /\ UNCHANGED <<identityFile, nIdentities>>
    /\ UNCHANGED notRnsVars

RnsNext ==
    \/ \E out \in ReticulumOutcomes : RNSManager_initialize(out) /\ UNCHANGED appVars
    \/ \E l \in {"none", "raise"}, f \in BOOLEAN, sv \in {"ok", "mkdir", "write"} :
           create_identity(l, f, sv) /\ UNCHANGED appVars
    \/ get_identity_hash /\ UNCHANGED appVars
    \/ \E d \in Identities \cup {NoIdentity}, b \in {"none", "raise"} :
           load_identity(d, b) /\ UNCHANGED appVars
    \/ \E f \in BOOLEAN : save_identity(f) /\ UNCHANGED appVars
    \/ \E l \in {"up", "down", "raise"}, ni \in 0 .. 1, np \in 0 .. 1 :
           get_status(l, ni, np) /\ UNCHANGED appVars
    \/ DamageIdentityFile /\ UNCHANGED appVars
    \/ RnsRestart /\ UNCHANGED appVars

(***************************************************************************)
(* LXMFManager                                                             *)
(***************************************************************************)

\* RNS.Reticulum.TRUNCATED_HASHLENGTH, in bits
TRUNCATED_HASHLENGTH == 128

NoRouter == 0

\* self.destination = None
NoDestination == [serial |-> 0, kind |-> "none", identity |-> NoIdentity]

\* A destination object: serial tells two objects apart, kind is "delivery" for
\* one the router registered and "bare" for one built by RNS.Destination(...).
Destination(serial, kind, identity) ==
    [serial |-> serial, kind |-> kind, identity |-> identity]

NoMessage ==
    [to |-> 0, source |-> 0, content |-> "", title |-> "", fields |-> None,
     method |-> None, try_propagation |-> FALSE]

\* A destination hash argument: bytes of a length, or a str of hex digits
\* (bad: it holds a character that is no hex digit). peer tells the value apart.
BytesInputs == [type : {"bytes"}, len : 0 .. MaxHashLen, digits : {0}, bad : {FALSE},
                peer : Peers]
StrInputs == [type : {"str"}, len : {0}, digits : 0 .. 2 * MaxHashLen, bad : {FALSE},
              peer : Peers]
BadStrInputs == [type : {"str"}, len : {0}, digits : {31, 32}, bad : {TRUE}, peer : Peers]
\* The peer is looked at only once the length validation has passed: inputs of
\* any other length are taken for one peer.
HashInputs ==
    {h \in BytesInputs \cup StrInputs \cup BadStrInputs :
        \/ h.peer = 1
        \/ h.type = "bytes" /\ h.len = TRUNCATED_HASHLENGTH \div 8
        \/ h.type = "str" /\ ~h.bad /\ h.digits = 2 * (TRUNCATED_HASHLENGTH \div 8)}

\* bytes.fromhex(s): ValueError on a non-hex character or an odd number of
\* digits, else one byte for every two digits.
FromHexRaises(h) == h.bad \/ h.digits % 2 = 1
FromHexLen(h) == h.digits \div 2

\* "len(destination_hash) == RNS.Reticulum.TRUNCATED_HASHLENGTH // 8" as it would
\* be with the comparison relaxed to "at most".
HashLengthOk_AtMost(n) == n <= TRUNCATED_HASHLENGTH \div 8

\* len(destination_hash) == RNS.Reticulum.TRUNCATED_HASHLENGTH // 8
HashLengthOk(n) == n = TRUNCATED_HASHLENGTH \div 8

\* What create_message returns on each of its failure paths.
RetNotInitialized == None
RetInvalidFormat == None
RetInvalidLength == None
RetIdentityUnknown == None
RetCreationFailed == None

\* A call as the caller sees it (ret, msg), with what the manager did on the
\* way: hashLen is the length of the hash it looked at (-1: none), diag the
\* branch that returned, recalled and requested say whether RNS.Identity.recall
\* and RNS.Transport.request_path were called, peer for which address.
LxmfCall(op, ret, id, hashLen, peer, diag, recalled, requested, msg) ==
    [op |-> op, ret |-> ret, identity |-> id, hashLen |-> hashLen, peer |-> peer,
     diag |-> diag, recalled |-> recalled, requested |-> requested, msg |-> msg,
     wasRegistered |-> destination # NoDestination]

LxmfInit ==
    /\ router = NoRouter
    /\ destination = NoDestination
    /\ lxmfIdentity = NoIdentity
    /\ storagePath = None
    /\ nRouters = 0
    /\ nDests = 0
    /\ pathRequests = {}
    /\ outbound = <<>>
    /\ lxmfCall = [op |-> "init", ret |-> None, identity |-> NoIdentity, hashLen |-> 0,
                   peer |-> 0, diag |-> "", recalled |-> FALSE, requested |-> FALSE,
                   msg |-> NoMessage, wasRegistered |-> FALSE]

\* What the library calls of initialize can do, in the order they are made:
\*   "mkdir_raises"      os.makedirs raises
\*   "router_raises"     LXMF.LXMRouter(...) raises
\*   "register_raises"   register_delivery_identity raises
\*   "registered"        register_delivery_identity returns a destination
\*   "none_existing"     it returns None and router.delivery_destinations holds one
\*   "none_bare"         it returns None, delivery_destinations is empty
\*   "none_bare_raises"  as none_bare, and RNS.Destination(...) raises
InitOutcomes == {"mkdir_raises", "router_raises", "register_raises", "registered",
                 "none_existing", "none_bare", "none_bare_raises"}

\* initialize as it would be if a registration that yields no handle were a
\* failure: no fallback is tried.
LXMFManager_initialize_NoFallback(identity, storage, outcome) ==
    /\ nRouters < MaxRouters
    /\ storagePath' = IF storage = None THEN "tmp/lxmf_storage" ELSE storage
    /\ IF outcome \in {"mkdir_raises", "router_raises"}
       THEN /\ lxmfCall' = LxmfCall("initialize", "False", identity, 0, 0, outcome,
                                    FALSE, FALSE, NoMessage)
            /\ UNCHANGED <<router, destination, lxmfIdentity, nRouters, nDests>>
       ELSE /\ nRouters' = nRouters + 1
            /\ router' = nRouters + 1
            /\ IF outcome = "registered"
               THEN /\ nDests' = nDests + 1
                    /\ destination' = Destination(nDests + 1, "delivery", identity)
                    /\ lxmfIdentity' = identity
                    /\ lxmfCall' = LxmfCall("initialize", "True", identity, 0, 0,
                                            outcome, FALSE, FALSE, NoMessage)
               ELSE /\ destination' = IF outcome = "register_raises"
                                       THEN destination ELSE NoDestination
                    /\ lxmfCall' = LxmfCall("initialize", "False", identity, 0, 0,
                                            outcome, FALSE, FALSE, NoMessage)
                    /\ UNCHANGED <<lxmfIdentity, nDests>>
    /\ UNCHANGED <<pathRequests, outbound>>
    /\ UNCHANGED notLxmfVars

\* LXMFManager.initialize(identity, destination_name, storage_path, display_name)
LXMFManager_initialize(identity, storage, outcome) ==
    /\ nRouters < MaxRouters
    /\ storagePath' = IF storage = None THEN "tmp/lxmf_storage" ELSE storage
    /\ IF outcome \in {"mkdir_raises", "router_raises"}
       THEN /\ lxmfCall' = LxmfCall("initialize", "False", identity, 0, 0, outcome,
                                    FALSE, FALSE, NoMessage)
            /\ UNCHANGED <<router, destination, lxmfIdentity, nRouters, nDests>>
       ELSE /\ nRouters' = nRouters + 1
            /\ router' = nRouters + 1
            /\ CASE outcome = "register_raises" ->
                    /\ lxmfCall' = LxmfCall("initialize", "False", identity, 0, 0,
                                            outcome, FALSE, FALSE, NoMessage)
                    /\ UNCHANGED <<destination, lxmfIdentity, nDests>>
                 [] outcome = "none_bare_raises" ->
                    \* register_delivery_identity's None is already stored
                    /\ destination' = NoDestination
                    /\ lxmfCall' = LxmfCall("initialize", "False", identity, 0, 0,
                                            outcome, FALSE, FALSE, NoMessage)
                    /\ UNCHANGED <<lxmfIdentity, nDests>>
                 [] OTHER ->
                    /\ nDests' = nDests + 1
                    /\ destination' = Destination(nDests + 1,
                                                  IF outcome = "none_bare"
                                                  THEN "bare" ELSE "delivery",
                                                  identity)
                    /\ lxmfIdentity' = identity
                    /\ lxmfCall' = LxmfCall("initialize", "True", identity, 0, 0,
                                            outcome, FALSE, FALSE, NoMessage)
    /\ UNCHANGED <<pathRequests, outbound>>
    /\ UNCHANGED notLxmfVars

\* The length in bytes of the hash create_message validates: the bytes given,
\* or what bytes.fromhex makes of the str (-1: no bytes, fromhex raised).
DecodedLen(h) ==
    IF h.type = "bytes" THEN h.len
    ELSE IF FromHexRaises(h) THEN -1 ELSE FromHexLen(h)

\* LXMFManager.create_message(destination_hash, content, title, fields).
\* recall is what RNS.Identity.recall returns for the hash ("identity" or
\* "none"); ctor is what the two constructors do once the identity is recalled:
\* "ok", "destination_raises" (RNS.Destination) or "message_raises" (LXMessage).
create_message(h, content, title, fields, recall, ctor) ==
    LET n == DecodedLen(h)
        Fail(ret, diag, recalled, requested) ==
            lxmfCall' = LxmfCall("create_message", ret, NoIdentity, n,
                                 IF recalled THEN h.peer ELSE 0, diag,
                                 recalled, requested, NoMessage)
    IN /\ CASE destination = NoDestination ->
                /\ lxmfCall' = LxmfCall("create_message", RetNotInitialized, NoIdentity,
                                        IF h.type = "bytes" THEN h.len ELSE -1, 0,
                                        "not_initialized", FALSE, FALSE, NoMessage)
                /\ UNCHANGED pathRequests
            [] destination # NoDestination /\ n < 0 ->
                /\ Fail(RetInvalidFormat, "invalid_format", FALSE, FALSE)
                /\ UNCHANGED pathRequests
            [] destination # NoDestination /\ n >= 0 /\ ~HashLengthOk(n) ->
                /\ Fail(RetInvalidLength, "invalid_length", FALSE, FALSE)
                /\ UNCHANGED pathRequests
            [] destination # NoDestination /\ n >= 0 /\ HashLengthOk(n)
                 /\ recall = "none" ->
                /\ pathRequests' = pathRequests \cup {h.peer}
                /\ Fail(RetIdentityUnknown, "identity_unknown", TRUE, TRUE)
            [] OTHER ->
                /\ UNCHANGED pathRequests
                /\ IF ctor # "ok"
                   THEN Fail(RetCreationFailed, "creation_failed", TRUE, FALSE)
                   ELSE lxmfCall' =
                          LxmfCall("create_message", "Message", NoIdentity, n, h.peer,
                                   "", TRUE, FALSE,
                                   [to |-> h.peer, source |-> destination.serial,
                                    content |-> content,
                                    title |-> IF title # None /\ title # "" THEN title ELSE "",
                                    fields |-> IF fields # None THEN fields ELSE None,
                                    method |-> "DIRECT", try_propagation |-> TRUE])
       /\ UNCHANGED <<router, destination, lxmfIdentity, storagePath, nRouters, nDests,
                      outbound>>
       /\ UNCHANGED notLxmfVars

\* A message the caller built itself with LXMF.LXMessage(...), without
\* create_message.
ForeignMessage ==
    [to |-> 1, source |-> 0, content |-> "hello", title |-> "", fields |-> None,
     method |-> "DIRECT", try_propagation |-> FALSE]

\* LXMFManager.send_message(message): fault says whether
\* router.handle_outbound(message) raises. The test is on self.router.
send_message(message, fault) ==
    /\ Len(outbound) < MaxOutbound
    /\ IF router # NoRouter
       THEN IF fault
            THEN /\ lxmfCall' = LxmfCall("send_message", "False", NoIdentity, 0, 0,
                                         "send_failed", FALSE, FALSE, message)
                 /\ UNCHANGED outbound
            ELSE /\ outbound' = Append(outbound, message)
                 /\ lxmfCall' = LxmfCall("send_message", "True", NoIdentity, 0, 0,
                                         "", FALSE, FALSE, message)
       ELSE /\ lxmfCall' = LxmfCall("send_message", "False", NoIdentity, 0, 0,
                                    "router_not_initialized", FALSE, FALSE, message)
            /\ UNCHANGED outbound
    /\ UNCHANGED <<router, destination, lxmfIdentity, storagePath, nRouters, nDests,
                   pathRequests>>
    /\ UNCHANGED notLxmfVars

\* LXMFManager.get_router_stats(): fault says whether reading the router's
\* queues raises. Nothing is caught here.
get_router_stats(fault) ==
    /\ lxmfCall' = IF router # NoRouter /\ fault
                   THEN LxmfCall("get_router_stats", "raised", NoIdentity, 0, 0, "",
                                 FALSE, FALSE, NoMessage)
                   ELSE LxmfCall("get_router_stats",
                                 IF router # NoRouter THEN "Stats" ELSE "Empty",
                                 NoIdentity, Len(outbound), 0, "", FALSE, FALSE, NoMessage)
    /\ UNCHANGED <<router, destination, lxmfIdentity, storagePath, nRouters, nDests,
                   pathRequests, outbound>>
    /\ UNCHANGED notLxmfVars

\* The inputs whose hash has the length the validation asks for: only for these
\* can the title, the fields and the constructors make a difference.
FullLengthInputs == {h \in HashInputs : DecodedLen(h) = TRUNCATED_HASHLENGTH \div 8}

\* initialize_lxmf(identity, destination_name, display_name) passes
\* storage_path=None.
LxmfNext ==
    \/ \E i \in Identities, out \in InitOutcomes :
           LXMFManager_initialize(i, None, out) /\ UNCHANGED appVars
    \/ \E h \in HashInputs :
           create_message(h, "hello", None, None, "none", "ok") /\ UNCHANGED appVars
    \/ \E h \in FullLengthInputs, t \in {None, "hi"}, f \in {None, "f"},
          c \in {"destination_raises", "message_raises", "ok"} :
           create_message(h, "hello", t, f, "identity", c) /\ UNCHANGED appVars
    \/ \E f \in BOOLEAN : send_message(ForeignMessage, f) /\ UNCHANGED appVars
    \/ \E f \in BOOLEAN : get_router_stats(f) /\ UNCHANGED appVars

(***************************************************************************)
(* app.py: main(), message_callback, send_message and the posted UI tasks  *)
(***************************************************************************)

\* A str is the sequence of its characters, a bytes value the sequence of its
\* byte values.
Anonymous == <<"A", "n", "o", "n", "y", "m", "o", "u", "s">>
Unknown == <<"U", "n", "k", "n", "o", "w", "n">>
You == <<"Y", "o", "u">>

HexDigits == <<"0", "1", "2", "3", "4", "5", "6", "7", "8", "9",
               "a", "b", "c", "d", "e", "f">>

\* bytes.hex(): two lowercase hex digits for every byte, high nibble first.
Hex(bs) ==
    [i \in 1 .. 2 * Len(bs) |->
        HexDigits[(IF i % 2 = 1 THEN bs[(i + 1) \div 2] \div 16
                                ELSE bs[i \div 2] % 16) + 1]]

\* bytes.decode('utf-8') on the byte values the model uses: the ASCII letters
\* decode to themselves, the byte 0xff is no valid UTF-8 and makes decode raise.
Utf8Valid(bs) == \A i \in DOMAIN bs : bs[i] < 128
Chr(b) == CASE b = 66 -> "B" [] b = 98 -> "b" [] b = 111 -> "o" [] OTHER -> "?"
Utf8Decode(bs) == [i \in DOMAIN bs |-> Chr(bs[i])]

\* None where a hash is expected, and the 16-byte address hash of a peer.
NoHash == <<>>
PeerBytes(p, n) == [i \in 1 .. n |-> (16 * p + i) % 256]
PeerHash(p) == PeerBytes(p, TRUNCATED_HASHLENGTH \div 8)

\* The entries RNS.Transport.destinations can hold for a peer: with or without
\* a display name, with no app_data, app_data that is UTF-8 text, or app_data
\* that is not.
ObservedDestinations ==
    [hash : {PeerHash(p) : p \in Peers},
     display_name : {<<>>, <<"B", "o", "b">>},
     app_data : {<<>>, <<66, 111, 98>>, <<255>>}]

\* The lists RNS.Transport.destinations is taken from: at most one entry.
DestinationLists == {<<>>} \cup {<<d>> : d \in ObservedDestinations}

\* The index of the first destination whose hash is h, 0 if there is none: the
\* loop of message_callback stops at the first match.
RECURSIVE FirstMatch(_, _, _)
FirstMatch(dests, h, i) ==
    IF i > Len(dests) THEN 0
    ELSE IF dests[i].hash = h THEN i
    ELSE FirstMatch(dests, h, i + 1)

\* The sender_name message_callback computes. lookupRaises says whether
\* reading RNS.Transport.destinations raises, which the callback catches.
SenderName(sender_hash, dests, lookupRaises) ==
    IF sender_hash = NoHash \/ lookupRaises THEN Anonymous
    ELSE LET m == FirstMatch(dests, sender_hash, 1)
         IN IF m = 0 THEN Anonymous
            ELSE IF dests[m].display_name # <<>> THEN dests[m].display_name
            ELSE IF dests[m].app_data # <<>> /\ Utf8Valid(dests[m].app_data)
                 THEN Utf8Decode(dests[m].app_data)
            ELSE Anonymous

\* sender_hash_str of message_callback
SenderHashStr(sender_hash) ==
    IF sender_hash # NoHash THEN Hex(sender_hash) ELSE Unknown

\* msg_data of message_callback; is_sent stands for msg.get("is_sent", False).
msg_data(sender_hash, dests, lookupRaises, title, content) ==
    [sender_name |-> SenderName(sender_hash, dests, lookupRaises),
     sender_hash |-> SenderHashStr(sender_hash),
     sender_hash_bytes |-> sender_hash,
     title |-> title,
     content |-> content,
     is_sent |-> FALSE]

\* sent_msg_data of send_message
sent_msg_data(recipient_hash_str, recipient_hash, title, content) ==
    [sender_name |-> You,
     sender_hash |-> recipient_hash_str,
     sender_hash_bytes |-> recipient_hash,
     title |-> title,
     content |-> content,
     is_sent |-> TRUE]

NoRecord == msg_data(NoHash, <<>>, FALSE, "", "")

\* The frames of the two threads while they are outside their function.
CallbackIdle ==
    [pc |-> "idle", source_hash |-> NoHash, destinations |-> <<>>,
     lookupRaises |-> FALSE, rec |-> NoRecord]
SendIdle == [pc |-> "idle", msg |-> NoMessage, rec |-> NoRecord]

\* What the threads of app.py leave alone.
managerVars == <<lxstVars, rnsVars, lxmfVars>>
mainVars == <<pc, mainIdentity, mainLog, page_ref, callbackRegistered>>

Inbound == {i \in DOMAIN messages_list : ~messages_list[i].is_sent}

\* What RNS.Transport.destinations holds when a message of peer 1 is delivered:
\* nothing, or an entry for that peer.
DeliveryLists == {l \in DestinationLists : l = <<>> \/ l[1].hash = PeerHash(1)}

\* message_callback, lines 66-125, on the network thread: the router calls it
\* with a delivered message; it reads the sender hash, resolves the sender's
\* name and builds msg_data.
CallbackBuild(source_hash, dests, lookupRaises) ==
    /\ callbackRegistered
    /\ cb.pc = "idle"
    /\ Cardinality(Inbound) < MaxInbound
    /\ cb' = [pc |-> "insert", source_hash |-> source_hash, destinations |-> dests,
              lookupRaises |-> lookupRaises,
              rec |-> msg_data(source_hash, dests, lookupRaises, "", "hello")]
    /\ UNCHANGED <<mainVars, messages_list, ui, runQueue, rendered, uiBuilt, writers>>
    /\ UNCHANGED managerVars

\* message_callback as it would be with list.append in place of insert(0, ...).
CallbackInsert_Append ==
    /\ cb.pc = "insert"
    /\ messages_list' = Append(messages_list, cb.rec)
    /\ writers' = writers \cup {"network"}
    /\ cb' = [cb EXCEPT !.pc = "post"]
    /\ UNCHANGED <<mainVars, ui, runQueue, rendered, uiBuilt>>
    /\ UNCHANGED managerVars

\* message_callback, line 126: messages_list.insert(0, msg_data)
CallbackInsert ==
    /\ cb.pc = "insert"
    /\ messages_list' = <<cb.rec>> \o messages_list
    /\ writers' = writers \cup {"network"}
    /\ cb' = [cb EXCEPT !.pc = "post"]
    /\ UNCHANGED <<mainVars, ui, runQueue, rendered, uiBuilt>>
    /\ UNCHANGED managerVars

\* message_callback as it would be with the rebuild made in the callback itself
\* instead of being handed to page_ref.run_thread.
CallbackPost_Inline ==
    /\ cb.pc = "post"
    /\ IF page_ref
       THEN rendered' = Len(messages_list) /\ uiBuilt' = TRUE
       ELSE UNCHANGED <<rendered, uiBuilt>>
    /\ cb' = CallbackIdle
    /\ UNCHANGED <<mainVars, messages_list, ui, runQueue, writers>>
    /\ UNCHANGED managerVars

\* message_callback, lines 128-133: if page_ref is set, update_ui is handed to
\* page_ref.run_thread; the callback returns.
CallbackPost ==
    /\ cb.pc = "post"
    /\ runQueue' = IF page_ref THEN runQueue + 1 ELSE runQueue
    /\ cb' = CallbackIdle
    /\ UNCHANGED <<mainVars, messages_list, ui, rendered, uiBuilt, writers>>
    /\ UNCHANGED managerVars

\* What the recipient field of the send form holds: the text typed, or the
\* bytes a reply stored in its data attribute.
SendInputs ==
    {h \in HashInputs :
        /\ h.peer = 1
        /\ \/ h.type = "bytes" /\ h.len = TRUNCATED_HASHLENGTH \div 8
           \/ h.type = "str" /\ h.digits \in {0, 31}}

\* recipient_hash_str and recipient_hash of send_message for such an input.
RecipientStr(h) ==
    IF h.type = "bytes" THEN Hex(PeerBytes(h.peer, h.len))
    ELSE SubSeq(Hex(PeerBytes(h.peer, (h.digits + 1) \div 2)), 1, h.digits)
RecipientBytes(h) ==
    IF h.type = "bytes" THEN PeerBytes(h.peer, h.len)
    ELSE PeerBytes(h.peer, FromHexLen(h))

\* send_message(page), lines 434-481, on the UI thread: the recipient is read
\* and decoded, then lxmf.create_message is called with the bytes.
SendCreate(h, title, recall, ctor) ==
    /\ uiBuilt
    /\ ui.pc = "idle"
    /\ IF h.type = "str" /\ (h.digits = 0 \/ FromHexRaises(h))
       THEN \* "Recipient address required" / "Invalid hash format"
            UNCHANGED <<ui, lxmfVars>> /\ UNCHANGED notLxmfVars
       ELSE /\ create_message([type |-> "bytes", len |-> DecodedLen(h), digits |-> 0,
                                bad |-> FALSE, peer |-> h.peer],
                               "hello", IF title # "" THEN title ELSE None, None,
                               recall, ctor)
            /\ ui' = IF lxmfCall'.ret = "Message"
                     THEN [pc |-> "send_message", msg |-> lxmfCall'.msg,
                           rec |-> sent_msg_data(RecipientStr(h), RecipientBytes(h),
                                                 title, "hello")]
                     ELSE SendIdle
    /\ UNCHANGED <<mainVars, messages_list, cb, runQueue, rendered, uiBuilt, writers>>

\* send_message(page), line 482: lxmf.send_message(message)
SendSend(fault) ==
    /\ ui.pc = "send_message"
    /\ send_message(ui.msg, fault)
    /\ ui' = IF lxmfCall'.ret = "True" THEN [ui EXCEPT !.pc = "insert"] ELSE SendIdle
    /\ UNCHANGED <<mainVars, messages_list, cb, runQueue, rendered, uiBuilt, writers>>

\* send_message(page), lines 485-493: messages_list.insert(0, sent_msg_data)
SendInsert ==
    /\ ui.pc = "insert"
    /\ messages_list' = <<ui.rec>> \o messages_list
    /\ writers' = writers \cup {"ui"}
    /\ ui' = [ui EXCEPT !.pc = "post"]
    /\ UNCHANGED <<mainVars, cb, runQueue, rendered, uiBuilt>>
    /\ UNCHANGED managerVars

\* send_message(page), lines 495-508: update_ui is handed to page.run_thread,
\* the fields are cleared.
SendPost ==
    /\ ui.pc = "post"
    /\ runQueue' = runQueue + 1
    /\ ui' = SendIdle
    /\ UNCHANGED <<mainVars, messages_list, cb, rendered, uiBuilt, writers>>
    /\ UNCHANGED managerVars

\* One of the tasks handed to run_thread runs. They all do the same: init_ui
\* and both update_ui clear the controls, call build_ui, which makes a card of
\* every entry of messages_list, and update the page.
RunTask ==
    /\ runQueue > 0
    /\ runQueue' = runQueue - 1
    /\ rendered' = Len(messages_list)
    /\ uiBuilt' = TRUE
    /\ UNCHANGED <<mainVars, messages_list, cb, ui, writers>>
    /\ UNCHANGED managerVars

\* main(page), lines 20-52: the page is stored in page_ref, the loader is shown.
MainStart ==
    /\ pc = "start"
    /\ page_ref' = TRUE
    /\ pc' = "initialize_reticulum"
    /\ UNCHANGED <<mainIdentity, mainLog, callbackRegistered, messages_list, cb, ui,
                   runQueue, rendered, uiBuilt, writers>>
    /\ UNCHANGED managerVars

\* What every step of main leaves alone.
notMainVars == <<messages_list, cb, ui, runQueue, rendered, uiBuilt, writers>>

\* main, lines 54-56: rns.initialize_reticulum(); main returns if it fails.
MainInitializeReticulum(outcome) ==
    /\ pc = "initialize_reticulum"
    /\ RNSManager_initialize(outcome)
    /\ mainLog' = Append(mainLog, <<"initialize_reticulum", rnsCall'.ret>>)
    /\ pc' = CASE rnsCall'.ret = "True" -> "create_identity"
               [] rnsCall'.ret = "False" -> "returned"
               [] OTHER -> "raised"
    /\ UNCHANGED <<mainIdentity, page_ref, callbackRegistered>>
    /\ UNCHANGED notMainVars

\* main, lines 58-61: rns.create_identity(); main returns if it yields nothing.
MainCreateIdentity(loadOutcome, ioFault, saveOutcome) ==
    /\ pc = "create_identity"
    /\ create_identity(loadOutcome, ioFault, saveOutcome)
    /\ mainLog' = Append(mainLog, <<"create_identity", rnsCall'.ret>>)
    /\ mainIdentity' = rnsCall'.identity
    /\ pc' = IF rnsCall'.ret = "Identity" THEN "initialize_lxmf" ELSE "returned"
    /\ UNCHANGED <<page_ref, callbackRegistered>>
    /\ UNCHANGED notMainVars

\* main as it would be if it returned when lxmf.initialize_lxmf fails.
MainInitializeLxmf_ReturnOnFailure(outcome) ==
    /\ pc = "initialize_lxmf"
    /\ LXMFManager_initialize(mainIdentity, None, outcome)
    /\ mainLog' = Append(mainLog, <<"initialize_lxmf", lxmfCall'.ret>>)
    /\ callbackRegistered' = (lxmfCall'.ret = "True" /\ router' # NoRouter)
    /\ pc' = IF lxmfCall'.ret = "True" THEN "initialize_lxst" ELSE "returned"
    /\ UNCHANGED <<mainIdentity, page_ref>>
    /\ UNCHANGED notMainVars

\* main, lines 63-136: lxmf.initialize_lxmf(identity, ...); on success
\* message_callback is registered with the router; main goes on either way.
MainInitializeLxmf(outcome) ==
    /\ pc = "initialize_lxmf"
    /\ LXMFManager_initialize(mainIdentity, None, outcome)
    /\ mainLog' = Append(mainLog, <<"initialize_lxmf", lxmfCall'.ret>>)
    /\ callbackRegistered' = (lxmfCall'.ret = "True" /\ router' # NoRouter)
    /\ pc' = "initialize_lxst"
    /\ UNCHANGED <<mainIdentity, page_ref>>
    /\ UNCHANGED notMainVars

\* main, lines 138-139: lxst.initialize_lxst(identity, ...)
MainInitializeLxst(fault) ==
    /\ pc = "initialize_lxst"
    /\ LXSTManager_initialize(mainIdentity, fault)
    /\ mainLog' = Append(mainLog, <<"initialize_lxst", lxstCall'.ret>>)
    /\ pc' = "finish"
    /\ UNCHANGED <<mainIdentity, page_ref, callbackRegistered>>
    /\ UNCHANGED notMainVars

\* main, lines 141-173: the destination is announced, the addresses are read
\* and printed, init_ui is handed to page.run_thread.
MainFinish ==
    /\ pc = "finish"
    /\ get_identity_hash
    /\ runQueue' = runQueue + 1
    /\ pc' = "done"
    /\ UNCHANGED <<mainIdentity, mainLog, page_ref, callbackRegistered>>
    /\ UNCHANGED <<messages_list, cb, ui, rendered, uiBuilt, writers>>

AppNext ==
    \/ MainStart
    \/ \E out \in ReticulumOutcomes : MainInitializeReticulum(out)
    \/ \E l \in {"none", "raise"}, f \in BOOLEAN, sv \in {"ok", "mkdir", "write"} :
           MainCreateIdentity(l, f, sv)
    \/ \E out \in InitOutcomes : MainInitializeLxmf(out)
    \/ \E f \in BOOLEAN : MainInitializeLxst(f)
    \/ MainFinish
    \/ \E d \in DeliveryLists, r \in BOOLEAN :
           (r => d = <<>>) /\ CallbackBuild(PeerHash(1), d, r)
    \/ CallbackBuild(NoHash, <<>>, FALSE)
    \/ CallbackInsert
    \/ CallbackPost
    \/ \E h \in SendInputs : SendCreate(h, "", "none", "ok")
    \/ \E h \in SendInputs \cap FullLengthInputs : SendCreate(h, "hi", "identity", "ok")
    \/ \E f \in BOOLEAN : SendSend(f)
    \/ SendInsert
    \/ SendPost
    \/ RunTask

\* app.py as imported: no page, no messages, main not started.
AppInit ==
    /\ pc = "start"
    /\ mainIdentity = NoIdentity
    /\ mainLog = <<>>
    /\ page_ref = FALSE
    /\ callbackRegistered = FALSE
    /\ messages_list = <<>>
    /\ cb = CallbackIdle
    /\ ui = SendIdle
    /\ runQueue = 0
    /\ rendered = 0
    /\ uiBuilt = FALSE
    /\ writers = {}

Init == LxstInit /\ RnsInit /\ LxmfInit /\ AppInit

\* One specification per manager: the managers share no state.
SpecLxst == Init /\ [][LxstNext]_vars

SpecLxstEnds == Init /\ [][LxstEndsNext]_vars

SpecRns == Init /\ [][RnsNext]_vars

SpecLxmf == Init /\ [][LxmfNext]_vars

\* The application: main() and the threads it starts.
SpecApp == Init /\ [][AppNext]_vars

Next == LxstNext \/ LxstEndsNext \/ RnsNext \/ LxmfNext \/ AppNext

Spec == Init /\ [][Next]_vars

(***************************************************************************)
(* Claims about LXSTManager, checked under SpecLxst.                       *)
(***************************************************************************)

\* The pipeline ids close_pipeline has removed from the registry so far.
ClosedIds == {PipelineId(objAddr[o]) : o \in {x \in 1 .. nObjects : Closed(x)}}

\* C1: pipeline lifecycle scenario. A stats request reports active == true for a
\* registered pipeline that was started, active == false for one that was
\* stopped, and fails (returns no statistics record) for a pipeline that
\* close_pipeline has removed.
C1_StatsFollowLifecycle ==
    lxstCall.op = "get_pipeline_stats" =>
        LET o == lxstCall.obj
        IN /\ (Registered(o) /\ objState[o] = "running" =>
                   lxstCall.ret = "Stats" /\ lxstCall.stats.active = TRUE)
           /\ (Registered(o) /\ objState[o] = "stopped" =>
                   lxstCall.ret = "Stats" /\ lxstCall.stats.active = FALSE)
           /\ (Closed(o) => lxstCall.ret # "Stats")

\* C2: a close on a pipeline id that is not in the registry, or that an earlier
\* close already removed, returns failure and leaves the registry unchanged.
C2_CloseUnknownFails ==
    [][(lxstCall'.op = "close_pipeline"
        /\ (lxstCall'.pid \notin DOMAIN pipelines \/ lxstCall'.pid \in ClosedIds))
       => (lxstCall'.ret = "False" /\ pipelines' = pipelines)]_vars

\* C3: whenever close returns success the id is absent from the registry and the
\* pipeline is not running, and no step removes a running pipeline from the
\* registry without invoking its stop and leaving it not running.
C3_CloseStopsThenRemoves ==
    [][/\ (lxstCall'.op = "close_pipeline" /\ lxstCall'.ret = "True") =>
             /\ lxstCall'.pid \notin DOMAIN pipelines'
             /\ objState'[lxstCall'.obj] # "running"
       /\ \A k \in DOMAIN pipelines :
             (k \notin DOMAIN pipelines' /\ PipelineActive(pipelines[k])) =>
                 /\ lxstCall'.stopInvoked
                 /\ objState'[pipelines[k]] # "running"]_vars

\* C3 witness: a close that found its pipeline running, stopped it and removed it.
C3_Witness ==
    /\ lxstCall.op = "close_pipeline"
    /\ lxstCall.ret = "True"
    /\ lxstCall.was = "running"
    /\ lxstCall.stopInvoked
    /\ lxstCall.pid \notin DOMAIN pipelines

C5_StartUnknownFails ==
    lxstCall.op = "start_pipeline" =>
        LET o == lxstCall.obj
        IN /\ (lxstCall.ret = "True" => objState[o] = "running")
           /\ (~Registered(o) => lxstCall.ret = "False" /\ objState[o] # "running")

\* C6: no pipeline identifier is issued to two different pipelines, also when
\* the first of them has been closed and released.
C6_IdsNeverReissued ==
    \A o1, o2 \in 1 .. nObjects :
        o1 # o2 => PipelineId(objAddr[o1]) # PipelineId(objAddr[o2])

\* C22 is checked under SpecLxstEnds.
\* C22: the source and sink registries only grow. No step removes or replaces
\* an entry of either registry, so their sizes never decrease; a successful
\* create_audio_source or create_audio_sink adds exactly one entry, under the id
\* of the object it returns, to its own registry; a creation that fails, and
\* every creation of an unknown kind, returns None and adds none.
C22_RegistriesOnlyGrow ==
    [][/\ \A k \in DOMAIN sources : k \in DOMAIN sources' /\ sources'[k] = sources[k]
       /\ \A k \in DOMAIN sinks : k \in DOMAIN sinks' /\ sinks'[k] = sinks[k]
       /\ Cardinality(DOMAIN sources') >= Cardinality(DOMAIN sources)
       /\ Cardinality(DOMAIN sinks') >= Cardinality(DOMAIN sinks)
       /\ lxstCall'.op = "create_audio_source" =>
             /\ lxstCall'.kind \notin SourceTypes => lxstCall'.ret = None
             /\ sinks' = sinks
             /\ IF lxstCall'.ret = None
                THEN sources' = sources
                ELSE /\ Cardinality(DOMAIN sources') = Cardinality(DOMAIN sources) + 1
                     /\ DOMAIN sources' = DOMAIN sources \cup {lxstCall'.pid}
       /\ lxstCall'.op = "create_audio_sink" =>
             /\ lxstCall'.kind \notin SinkTypes => lxstCall'.ret = None
             /\ sources' = sources
             /\ IF lxstCall'.ret = None
                THEN sinks' = sinks
                ELSE /\ Cardinality(DOMAIN sinks') = Cardinality(DOMAIN sinks) + 1
                     /\ DOMAIN sinks' = DOMAIN sinks \cup {lxstCall'.pid}]_vars

\* C22 witness: close_pipeline has stopped and removed a running pipeline that
\* was built from a registered source and a registered sink, and both are still
\* in their registries.
C22_Witness ==
    /\ lxstCall.op = "close_pipeline"
    /\ lxstCall.ret = "True"
    /\ lxstCall.was = "running"
    /\ lxstCall.pid \notin DOMAIN pipelines
    /\ objEnds[lxstCall.obj][1] \in RegisteredSources
    /\ objEnds[lxstCall.obj][2] \in RegisteredSinks

(***************************************************************************)
(* Claims about RNSManager, checked under SpecRns.                         *)
(***************************************************************************)

\* C7: network initialization is idempotent. A call made on an initialized
\* manager returns success without constructing anything, a call made on an
\* uninitialized manager attempts the construction, a call that does not
\* succeed leaves the manager uninitialized, and no sequence of calls
\* constructs more than one Reticulum instance.
C7_InitializeIdempotent ==
    /\ instances <= 1
    /\ initialized <=> instances = 1
    /\ rnsCall.op = "initialize" =>
          /\ (rnsCall.wasInitialized => rnsCall.ret = "True" /\ ~rnsCall.attempted)
          /\ (~rnsCall.wasInitialized => rnsCall.attempted)
          /\ (rnsCall.ret = "True" => initialized)
          /\ (rnsCall.ret # "True" => ~initialized)

\* C7 witness: a second initialize on an initialized manager has returned.
C7_Witness ==
    /\ rnsCall.op = "initialize"
    /\ rnsCall.wasInitialized
    /\ rnsCall.ret = "True"
    /\ instances = 1

\* C13: create_identity never fabricates an identity over a corrupt identity
\* file. A call made while the file exists but cannot be read as an identity
\* returns failure, generates no identity and leaves the file as it is.
C13_NoFabricationOverCorruptFile ==
    [][(rnsCall'.op = "create_identity" /\ identityFile.kind = "corrupt")
       => /\ rnsCall'.ret = None
          /\ ~rnsCall'.generated
          /\ nIdentities' = nIdentities
          /\ identityFile' = identityFile]_vars

\* C13 witness: create_identity has returned failure on a corrupt file that an
\* earlier run had written an identity to, and the file is still the corrupt one.
C13_Witness ==
    /\ rnsCall.op = "create_identity"
    /\ rnsCall.fileWas = CorruptFile
    /\ rnsCall.ret = None
    /\ nIdentities >= 1
    /\ identityFile = CorruptFile

\* C14 as stated: every create_identity made while the file holds a persisted
\* identity returns that identity, with the identical hash, and generates none.
C14_RoundTripAlways ==
    (rnsCall.op = "create_identity" /\ rnsCall.fileWas.kind = "identity") =>
        /\ rnsCall.ret = "Identity"
        /\ IdentityHash(rnsCall.identity) = IdentityHash(rnsCall.fileWas.id)
        /\ ~rnsCall.generated

\* C14 amended: every create_identity made while the file holds a persisted
\* identity, in the manager that wrote it or in a fresh one, generates no
\* identity; unless reading the file raises it returns the persisted identity,
\* with the identical hash, and holds it; when reading the file raises it
\* returns failure.
C14_RoundTrip ==
    (rnsCall.op = "create_identity" /\ rnsCall.fileWas.kind = "identity") =>
        /\ ~rnsCall.generated
        /\ identityFile \in {rnsCall.fileWas, CorruptFile}
        /\ (~rnsCall.readFault =>
               /\ rnsCall.ret = "Identity"
               /\ rnsCall.identity = rnsCall.fileWas.id
               /\ IdentityHash(rnsCall.identity) = IdentityHash(rnsCall.fileWas.id)
               /\ rnsIdentity = rnsCall.fileWas.id)
        /\ (rnsCall.readFault => rnsCall.ret = None /\ rnsCall.identity = NoIdentity)

\* C14 witness: a later call has loaded the identity that an earlier call
\* generated and wrote, and no other identity was generated.
C14_Witness ==
    /\ rnsCall.op = "create_identity"
    /\ rnsCall.fileWas.kind = "identity"
    /\ rnsCall.ret = "Identity"
    /\ rnsCall.identity = rnsCall.fileWas.id
    /\ ~rnsCall.generated
    /\ nIdentities = 1
    /\ identityFile = SavedFile(1)

\* C15: no public operation of a manager lets an exception raised by the library
\* under it reach its caller: every call returns a result.
C15_NoExceptionPropagates ==
    /\ rnsCall.ret # "raised"
    /\ lxmfCall.ret # "raised"
    /\ lxstCall.ret # "raised"

\* C21: when no identity file exists and persisting the newly generated
\* identity fails, create_identity returns None, writes no file and leaves the
\* manager holding the identity it generated, whatever it held before the
\* call; a get_identity_hash that follows returns that identity's hash, not None.
C21_FailedCreateKeepsIdentity ==
    [][/\ (/\ rnsCall'.op = "create_identity"
           /\ identityFile.kind = "absent"
           /\ nIdentities' # nIdentities
           /\ identityFile' = identityFile)
          => /\ rnsCall'.ret = None
             /\ rnsCall'.generated
             /\ rnsIdentity' = nIdentities'
             /\ rnsIdentity' # NoIdentity
       /\ (/\ rnsCall.op = "create_identity"
           /\ rnsCall.fileWas = NoFile
           /\ rnsCall.generated
           /\ rnsCall.ret = None
           /\ rnsCall'.op = "get_identity_hash")
          => /\ rnsCall'.ret = "Hash"
             /\ rnsCall'.identity = nIdentities
             /\ IdentityHash(rnsCall'.identity) = IdentityHash(rnsIdentity)]_vars

\* C21 witness: get_identity_hash has returned the hash of a generated identity
\* while no identity file has ever been written: every create_identity so far
\* failed to persist, and the manager holds the identity the last one generated.
C21_Witness ==
    /\ rnsCall.op = "get_identity_hash"
    /\ rnsCall.ret = "Hash"
    /\ rnsCall.identity = nIdentities
    /\ rnsIdentity = nIdentities
    /\ nIdentities >= 1
    /\ identityFile = NoFile

(***************************************************************************)
(* Claims about LXMFManager, checked under SpecLxmf.                       *)
(***************************************************************************)

\* C8: registering a delivery destination twice for the same identity yields the
\* same destination handle: an initialize on a manager that already holds a
\* destination for that identity keeps the router and the destination it has.
C8_RegistrationIdempotent ==
    [][(lxmfCall'.op = "initialize"
        /\ destination # NoDestination
        /\ lxmfIdentity = lxmfCall'.identity)
       => (destination' = destination /\ router' = router)]_vars

\* C9: create_message with a destination hash whose length is not 16 bytes
\* fails, constructs no message and issues no path request; with a hash of 16
\* bytes on a registered manager the length validation passes and the identity
\* lookup is made, whether or not the address resolves.
C9_HashLengthValidated ==
    lxmfCall.op = "create_message" =>
        /\ (lxmfCall.hashLen # 16 =>
               /\ lxmfCall.ret = None
               /\ lxmfCall.msg = NoMessage
               /\ ~lxmfCall.requested
               /\ ~lxmfCall.recalled)
        /\ (lxmfCall.hashLen # 16 /\ lxmfCall.hashLen >= 0 /\ lxmfCall.wasRegistered =>
               lxmfCall.diag = "invalid_length")
        /\ (lxmfCall.hashLen = 16 /\ lxmfCall.wasRegistered =>
               lxmfCall.recalled /\ lxmfCall.diag # "invalid_length")

\* C9 witness: a registered manager has rejected a 17-byte hash.
C9_Witness ==
    /\ lxmfCall.op = "create_message"
    /\ lxmfCall.wasRegistered
    /\ lxmfCall.hashLen = 17
    /\ lxmfCall.diag = "invalid_length"
    /\ lxmfCall.ret = None

\* C10: create_message with a 16-byte address that cannot be resolved issues a
\* path request for it and fails with an outcome the caller can tell apart from
\* the invalid-address outcome and from the generic creation failure.
C10_IdentityUnknownDistinct ==
    (lxmfCall.op = "create_message" /\ lxmfCall.diag = "identity_unknown") =>
        /\ lxmfCall.requested
        /\ lxmfCall.peer \in pathRequests
        /\ lxmfCall.ret # RetInvalidLength
        /\ lxmfCall.ret # RetCreationFailed

\* C11: a send made while no delivery destination is registered fails and hands
\* nothing to the outbound queue, in every state the manager can reach: before
\* initialize, and after an initialize that failed part-way.
C11_SendNeedsDestination ==
    [][(lxmfCall'.op = "send_message" /\ destination = NoDestination)
       => (lxmfCall'.ret = "False" /\ outbound' = outbound)]_vars

\* C12 as stated: whenever register_delivery_identity yields no handle,
\* initialize returns success and the manager holds a bare inbound destination
\* built from the identity.
C12_FallbackIsBare ==
    (lxmfCall.op = "initialize"
     /\ lxmfCall.diag \in {"none_existing", "none_bare", "none_bare_raises"}) =>
        /\ lxmfCall.ret = "True"
        /\ destination.kind = "bare"
        /\ destination.identity = lxmfCall.identity

\* C12 amended: when register_delivery_identity yields no handle the manager
\* takes the router's first existing delivery destination if there is one, and
\* otherwise builds a bare inbound destination from the identity; in both cases
\* initialize returns success with a non-empty destination. It returns failure,
\* with no destination, only when building the bare destination raises.
C12_FallbackNotAnError ==
    lxmfCall.op = "initialize" =>
        /\ (lxmfCall.diag = "none_existing" =>
               /\ lxmfCall.ret = "True"
               /\ destination.kind = "delivery")
        /\ (lxmfCall.diag = "none_bare" =>
               /\ lxmfCall.ret = "True"
               /\ destination.kind = "bare"
               /\ destination.identity = lxmfCall.identity)
        /\ (lxmfCall.diag = "none_bare_raises" =>
               /\ lxmfCall.ret = "False"
               /\ destination = NoDestination)

\* C12 witness: a registration that yielded no handle, answered with success and
\* a bare destination for the identity.
C12_Witness ==
    /\ lxmfCall.op = "initialize"
    /\ lxmfCall.diag = "none_bare"
    /\ lxmfCall.ret = "True"
    /\ destination.kind = "bare"
    /\ destination.identity = lxmfCall.identity

(***************************************************************************)
(* Claims about app.py, checked under SpecApp.                             *)
(***************************************************************************)

\* C16: messages_list has a single writer. Only message_callback, on the
\* network thread, ever inserts into it, and the UI thread is never at an insert
\* of its own while the callback is at its insert.
C16_SingleWriter ==
    /\ writers \subseteq {"network"}
    /\ ~(cb.pc = "insert" /\ ui.pc = "insert")

\* C17: message_callback only builds the record, inserts it and hands the
\* rebuild to run_thread. No step of the callback rebuilds the page or touches
\* anything but its record, the list and the run queue; when it hands the task
\* over, its record is in the list already; and the page is rebuilt only by a
\* step that takes a task from the run queue.
C17_RebuildIsPosted ==
    [][/\ (cb' # cb =>
             /\ rendered' = rendered /\ uiBuilt' = uiBuilt
             /\ ui' = ui /\ pc' = pc)
       /\ ((cb.pc = "post" /\ cb'.pc = "idle") =>
             /\ \E i \in DOMAIN messages_list : messages_list[i] = cb.rec
             /\ messages_list' = messages_list
             /\ (page_ref => runQueue' = runQueue + 1))
       /\ ((rendered' # rendered \/ uiBuilt' # uiBuilt) =>
             /\ runQueue' = runQueue - 1
             /\ cb' = cb
             /\ rendered' = Len(messages_list))]_vars

\* C17 witness: a message was received, the callback has returned, and the
\* tasks handed to run_thread have run and put the message on the page.
C17_Witness ==
    /\ Inbound # {}
    /\ cb.pc = "idle"
    /\ runQueue = 0
    /\ rendered = Len(messages_list)
    /\ writers = {"network"}

\* C18: messages_list is newest first and append-only. Every change of the list
\* puts one record at its head and leaves the records it held, their fields and
\* their order as they were.
C18_NewestFirstAppendOnly ==
    [][messages_list' # messages_list =>
          /\ Len(messages_list') = Len(messages_list) + 1
          /\ Tail(messages_list') = messages_list]_vars

\* C18 witness: a received message was inserted above a sent one.
C18_Witness ==
    /\ Len(messages_list) = 2
    /\ ~messages_list[1].is_sent
    /\ messages_list[2].is_sent
    /\ cb.pc = "post"

\* C19: the sender name of a received message is never empty; it is the display
\* name of the first observed destination with the sender's hash, or that
\* destination's app_data when it decodes as text, and in every other case a
\* truncated hex rendering of the sender's hash.
C19_NameOrTruncatedHex ==
    cb.pc # "idle" =>
        LET h == cb.source_hash
            m == FirstMatch(cb.destinations, h, 1)
            name == cb.rec.sender_name
        IN /\ name # <<>>
           /\ IF m # 0 /\ cb.destinations[m].display_name # <<>>
              THEN name = cb.destinations[m].display_name
              ELSE IF m # 0 /\ cb.destinations[m].app_data # <<>>
                      /\ Utf8Valid(cb.destinations[m].app_data)
              THEN name = Utf8Decode(cb.destinations[m].app_data)
              ELSE \E n \in 1 .. Len(Hex(h)) : name = SubSeq(Hex(h), 1, n)

\* C20: startup ordering. lxmf and lxst initialization are attempted only after
\* initialize_reticulum and create_identity have both succeeded, in that order,
\* with the identity create_identity returned; and once lxmf initialization has
\* been attempted, whatever it returned, lxst initialization is main's next call.
C20_StartupOrdering ==
    /\ \A i \in DOMAIN mainLog :
          mainLog[i][1] \in {"initialize_lxmf", "initialize_lxst"} =>
              /\ i >= 3
              /\ mainLog[1] = <<"initialize_reticulum", "True">>
              /\ mainLog[2] = <<"create_identity", "Identity">>
    /\ (lxmfCall.op # "init" \/ lxstCall.op # "init") =>
          /\ initialized
          /\ mainIdentity # NoIdentity
          /\ rnsIdentity = mainIdentity
    /\ lxstIdentity \in {NoIdentity, mainIdentity}
    /\ \A i \in DOMAIN mainLog :
          mainLog[i][1] = "initialize_lxmf" =>
              IF i = Len(mainLog) THEN pc = "initialize_lxst"
              ELSE mainLog[i + 1][1] = "initialize_lxst"

\* C20 witness: main has finished after an lxmf initialization that failed and
\* an lxst initialization that was made all the same.
C20_Witness ==
    /\ pc = "done"
    /\ Len(mainLog) = 4
    /\ mainLog[3] = <<"initialize_lxmf", "False">>
    /\ mainLog[4][1] = "initialize_lxst"
    /\ lxstIdentity = mainIdentity

====
